---- MODULE Spec2Model ----
(***************************************************************************)
(* ModuWorks: the audio capture pipeline (record_audio_menu, audio_writer, *)
(* convert_wav_to_mp3) and the reminder scheduler (manage_reminder,        *)
(* reminder_worker, main_menu/bootstrap), as state machines.               *)
(*                                                                         *)
(* Threads: the foreground thread (position mpc), one audio writer thread  *)
(* per recording (position wpc) and one reminder worker per login          *)
(* (workers[w].pc).  Every action is one step of one thread between two    *)
(* accesses to state another thread can see.                               *)
(***************************************************************************)
EXTENDS Integers, Sequences, FiniteSets, TLC

\* ---------------------------------------------------------------- bounds
MaxFrames == 9      \* device reads modelled per recording
MaxToggles == 2     \* 'P' commands modelled per recording
MaxTime == 3        \* clock ticks modelled
MaxWorkers == 2     \* reminder_worker threads started (logins) modelled
MaxQueue == 2       \* signals modelled in REMINDER_QUEUE at once

\* ------------------------------------------------------------- constants
NULL == -1                       \* SQL NULL / Python None for reminder_time
NoteIds == {1, 2}                \* rows of table notes
Users == {1}                     \* rows of table users
NoteOwner == <<1, 1>>            \* notes.user_id

VARIABLES
    \* foreground thread
    mpc,            \* position: "bootstrap", "menu", "rec_*", "exited"
    user,           \* user['id'] of the session in main_menu, 0 when logged out
    \* record_audio_menu
    rev,            \* source revision run: "v130" (ModuWorks.py) or "v131"
    deps,           \* pyaudio and wave and AudioSegment imported
    stream_open,    \* the pyaudio input stream is open
    frames_queue,   \* queue.Queue(): frames waiting, oldest first
    unfinished,     \* frames_queue.unfinished_tasks
    stop_event,     \* threading.Event
    paused,         \* threading.Event
    nput,           \* frames read from the device and put, numbered 1..nput
    wpc,            \* audio_writer position
    wf_bound,       \* 'wf' in locals()
    wf_open,        \* the wave file object is open
    written,        \* frames passed to wf.writeframes, in order
    werr,           \* audio_writer caught an exception
    wavExists,      \* the .wav file exists on disk
    mp3Exists,      \* the .mp3 file exists on disk
    msgs,           \* speak_and_echo messages of this recording
    logs,           \* logging.error messages of this recording
    \* history of this recording (not program state)
    cmds,           \* 'P'/'S' commands processed, each with nput at that time
    stopAt,         \* nput when stop_event was first set (0 while it is clear)
    conv,           \* the MP3 prompt: "none", "declined" or the conversion's outcome
    exported,       \* audio.export returned without raising
    \* reminder subsystem
    now,            \* time.time()
    reminder_time,  \* notes.reminder_time by note id
    REMINDER_QUEUE, \* queue.Queue(): signals, oldest first
    workers,        \* reminder_worker threads by start order
    \* history of the reminder subsystem (not program state)
    fired,          \* notifications printed per note since its reminder was last set
    lastSet,        \* how the last manage_reminder call ended
    owed            \* workers asleep when a Terminate was put, until their next check

audioVars == <<rev, deps, stream_open, frames_queue, unfinished, stop_event, paused,
               nput, wpc, wf_bound, wf_open, written, werr, wavExists, mp3Exists,
               msgs, logs, cmds, stopAt, conv, exported>>
remVars == <<now, reminder_time, REMINDER_QUEUE, workers, fired, lastSet, owed>>
vars == <<mpc, user, audioVars, remVars>>

\* ------------------------------------------------------------ helpers
\* str.upper() on the one-character commands the loop compares
Upper(c) == CASE c = "p" -> "P" [] c = "s" -> "S" [] OTHER -> c

Range(s) == {s[i] : i \in 1..Len(s)}

IsPrefix(s, t) == Len(s) <= Len(t) /\ \A i \in 1..Len(s) : s[i] = t[i]

NumP == Cardinality({i \in 1..Len(cmds) : cmds[i].c = "P"})

\* threading.Event.set() on stop_event, remembering how much was put before
SetStop ==
    /\ stop_event' = TRUE
    /\ stopAt' = IF stop_event THEN stopAt ELSE nput

\* ------------------------------------------------ queue.Queue (frames)
\* frames_queue.put(data): append at the tail
QueuePut_Front(q, x) == <<x>> \o q
QueuePut(q, x) == Append(q, x)

\* frames_queue.get(): the oldest item
QueueFront(q) == Head(q)
QueueRest(q) == Tail(q)

\* ------------------------------------------------ record_audio_menu
\* 'P' handler: if paused.is_set(): paused.clear() else: paused.set()
TogglePaused_AlwaysSet(p) == TRUE
TogglePaused(p) == ~p

\* "if not paused.is_set():" guarding stream.read
CapturesThisIteration_Always(p) == TRUE
CapturesThisIteration(p) == ~p

\* the audio state a recording starts from, before the stream is opened
FreshRecording ==
    /\ frames_queue' = <<>>
    /\ unfinished' = 0
    /\ stop_event' = FALSE
    /\ paused' = FALSE
    /\ nput' = 0
    /\ wf_bound' = FALSE
    /\ wf_open' = FALSE
    /\ written' = <<>>
    /\ werr' = FALSE
    /\ wavExists' = FALSE
    /\ mp3Exists' = FALSE
    /\ logs' = {}
    /\ cmds' = <<>>
    /\ stopAt' = 0
    /\ conv' = "none"
    /\ exported' = FALSE

\* record_audio_menu up to writer_thread.start(): the dependency check, p.open,
\* the queue and the two events, the writer thread
StartRecording ==
    /\ mpc = "menu"
    /\ FreshRecording
    /\ IF ~deps
       THEN /\ msgs' = {"dependencies not available"}
            /\ UNCHANGED <<mpc, stream_open, wpc>>
       ELSE \E opened \in BOOLEAN :
              IF opened
              THEN /\ stream_open' = TRUE
                   /\ wpc' = "w_open"
                   /\ msgs' = {"Recording started"}
                   /\ mpc' = "rec_loop"
              ELSE /\ msgs' = {"Failed to open audio stream"}
                   /\ UNCHANGED <<mpc, stream_open, wpc>>
    /\ UNCHANGED <<user, rev, deps, remVars>>

\* one pass of "while not stop_event.is_set():" up to the capture logic: the
\* loop test, get_input_non_blocking and the command handlers
PollCommand ==
    /\ mpc = "rec_loop"
    /\ IF stop_event
       THEN /\ mpc' = "rec_finally"
            /\ UNCHANGED <<paused, stop_event, stopAt, cmds, msgs>>
       ELSE \E raw \in {"", "P", "p", "S", "s", "x", "raise"} :
              LET cmd == Upper(raw) IN
              CASE raw = "raise" ->
                     \* select() raises: v1.3.1 returns None, v1.3.0 lets it
                     \* reach "except Exception" of record_audio_menu
                     IF rev = "v131"
                     THEN /\ mpc' = "rec_capture"
                          /\ UNCHANGED <<paused, stop_event, stopAt, cmds, msgs>>
                     ELSE /\ msgs' = msgs \cup {"Recording error"}
                          /\ SetStop
                          /\ mpc' = "rec_finally"
                          /\ UNCHANGED <<paused, cmds>>
                [] cmd = "P" ->
                     /\ NumP < MaxToggles
                     /\ paused' = TogglePaused(paused)
                     /\ cmds' = Append(cmds, [c |-> "P", at |-> nput])
                     /\ mpc' = "rec_capture"
                     /\ UNCHANGED <<stop_event, stopAt, msgs>>
                [] cmd = "S" ->
                     /\ SetStop
                     /\ cmds' = Append(cmds, [c |-> "S", at |-> nput])
                     /\ mpc' = "rec_capture"
                     /\ UNCHANGED <<paused, msgs>>
                [] OTHER ->
                     /\ mpc' = "rec_capture"
                     /\ UNCHANGED <<paused, stop_event, stopAt, cmds, msgs>>
    /\ UNCHANGED <<user, rev, deps, stream_open, frames_queue, unfinished, nput, wpc,
                   wf_bound, wf_open, written, werr, wavExists, mp3Exists, logs,
                   conv, exported, remVars>>

\* the capture logic of one pass: stream.read and frames_queue.put, or the sleep
CaptureStep ==
    /\ mpc = "rec_capture"
    /\ IF CapturesThisIteration(paused)
       THEN \E ok \in BOOLEAN :
              IF ok
              THEN /\ nput < MaxFrames
                   /\ nput' = nput + 1
                   /\ frames_queue' = QueuePut(frames_queue, nput + 1)
                   /\ unfinished' = unfinished + 1
                   /\ mpc' = "rec_loop"
                   /\ UNCHANGED <<stop_event, stopAt, msgs, logs>>
              ELSE \* stream.read raises
                   /\ SetStop
                   /\ IF rev = "v131"
                      THEN /\ logs' = logs \cup {"Stream read error"}
                           /\ mpc' = "rec_loop"
                           /\ UNCHANGED msgs
                      ELSE /\ msgs' = msgs \cup {"Recording error"}
                           /\ mpc' = "rec_finally"
                           /\ UNCHANGED logs
                   /\ UNCHANGED <<nput, frames_queue, unfinished>>
       ELSE \* time.sleep
            /\ mpc' = "rec_loop"
            /\ UNCHANGED <<nput, frames_queue, unfinished, stop_event,
                           stopAt, msgs, logs>>
    /\ UNCHANGED <<user, rev, deps, stream_open, paused, wpc, wf_bound, wf_open,
                   written, werr, wavExists, mp3Exists, cmds, conv, exported, remVars>>

\* whether the input stream is open after stream.stop_stream(), stream.close()
\* and p.terminate()
StreamAfterClose_Leaked(open) == open
StreamAfterClose(open) == FALSE

\* finally: stream.stop_stream(); stream.close(); p.terminate(); stop_event.set()
Finally ==
    /\ mpc = "rec_finally"
    /\ stream_open' = StreamAfterClose(stream_open)
    /\ SetStop
    /\ mpc' = "rec_join_writer"
    /\ UNCHANGED <<user, rev, deps, frames_queue, unfinished, paused, nput, wpc,
                   wf_bound, wf_open, written, werr, wavExists, mp3Exists, msgs, logs,
                   cmds, conv, exported, remVars>>

\* writer_thread.join(): returns once the writer thread has ended
JoinWriter ==
    /\ mpc = "rec_join_writer"
    /\ wpc = "w_done"
    /\ mpc' = "rec_join_queue"
    /\ UNCHANGED <<user, audioVars, remVars>>

\* frames_queue.join() returns once every put has had its task_done; then the
\* duration is reported and recordings over one second get the MP3 prompt
JoinQueueAndReport ==
    /\ mpc = "rec_join_queue"
    /\ unfinished = 0
    /\ msgs' = msgs \cup {"Recording saved"}
    /\ \E long \in BOOLEAN : mpc' = IF long THEN "rec_prompt" ELSE "menu"
    /\ UNCHANGED <<user, rev, deps, stream_open, frames_queue, unfinished, stop_event,
                   paused, nput, wpc, wf_bound, wf_open, written, werr, wavExists,
                   mp3Exists, logs, cmds, stopAt, conv, exported, remVars>>

\* ------------------------------------------------ convert_wav_to_mp3
\* what the transcoder does on one call: every step succeeds, from_wav raises,
\* it raises FileNotFoundError (no FFmpeg), export raises before or after
\* creating the output file, or os.unlink raises
ConvertOutcomes == {"ok", "from_wav_raises", "not_found", "export_raises",
                    "export_raises_partial", "unlink_raises"}

ConversionFailures == {"Conversion failed: pydub is not imported",
                       "Conversion failed: FFmpeg (or Libav) not found",
                       "Conversion failed"}

\* convert_wav_to_mp3 (v1.3.0) and the inline conversion of v1.3.1: the files
\* left on disk and the message spoken.  hasSeg: AudioSegment is imported;
\* wav: the .wav file exists when the call starts
ConvertWavToMp3_UnlinkFirst(r, hasSeg, outcome, wav) ==
    IF ~hasSeg \/ ~wav \/ outcome \in {"not_found", "from_wav_raises"}
    THEN [wav |-> wav, mp3 |-> FALSE, exported |-> FALSE, msg |-> "Conversion failed"]
    ELSE IF outcome \in {"export_raises", "export_raises_partial"}
    THEN [wav |-> FALSE, mp3 |-> outcome = "export_raises_partial",
          exported |-> FALSE, msg |-> "Conversion failed"]
    ELSE [wav |-> FALSE, mp3 |-> TRUE, exported |-> TRUE,
          msg |-> "Conversion successful"]
ConvertWavToMp3(r, hasSeg, outcome, wav) ==
    IF ~hasSeg
    THEN [wav |-> wav, mp3 |-> FALSE, exported |-> FALSE,
          msg |-> IF r = "v130" THEN "Conversion failed: pydub is not imported"
                  ELSE "Conversion failed"]
    ELSE IF ~wav \/ outcome = "not_found"
    THEN \* AudioSegment.from_wav raises FileNotFoundError
         [wav |-> wav, mp3 |-> FALSE, exported |-> FALSE,
          msg |-> IF r = "v130" THEN "Conversion failed: FFmpeg (or Libav) not found"
                  ELSE "Conversion failed"]
    ELSE CASE outcome = "from_wav_raises" ->
                [wav |-> wav, mp3 |-> FALSE, exported |-> FALSE,
                 msg |-> "Conversion failed"]
           [] outcome = "export_raises" ->
                [wav |-> wav, mp3 |-> FALSE, exported |-> FALSE,
                 msg |-> "Conversion failed"]
           [] outcome = "export_raises_partial" ->
                [wav |-> wav, mp3 |-> TRUE, exported |-> FALSE,
                 msg |-> "Conversion failed"]
           [] outcome = "unlink_raises" ->
                [wav |-> wav, mp3 |-> TRUE, exported |-> TRUE,
                 msg |-> "Conversion failed"]
           [] OTHER ->
                [wav |-> FALSE, mp3 |-> TRUE, exported |-> TRUE,
                 msg |-> "Conversion successful"]

\* "Convert to MP3 and delete WAV? (y/n)" and, on 'y', the conversion
ConvertPrompt ==
    /\ mpc = "rec_prompt"
    /\ \E convert \in {"y", "n"} :
         IF convert = "y"
         THEN \E outcome \in ConvertOutcomes :
                LET res == ConvertWavToMp3(rev, deps, outcome, wavExists) IN
                /\ wavExists' = res.wav
                /\ mp3Exists' = res.mp3
                /\ exported' = res.exported
                /\ conv' = outcome
                /\ msgs' = msgs \cup {res.msg}
         ELSE /\ conv' = "declined"
              /\ UNCHANGED <<wavExists, mp3Exists, exported, msgs>>
    /\ mpc' = "menu"
    /\ UNCHANGED <<user, rev, deps, stream_open, frames_queue, unfinished, stop_event,
                   paused, nput, wpc, wf_bound, wf_open, written, werr, logs, cmds,
                   stopAt, remVars>>

\* ------------------------------------------------ audio_writer
\* wave.open(str(wav_file), 'wb') and the three setters: all succeed, wave.open
\* raises (no file, wf unbound), or a setter raises after the file was created
WriterOpen ==
    /\ wpc = "w_open"
    /\ \E outcome \in {"ok", "open_raises", "setter_raises"} :
         CASE outcome = "ok" ->
                /\ wf_bound' = TRUE
                /\ wf_open' = TRUE
                /\ wavExists' = TRUE
                /\ wpc' = "w_test"
                /\ UNCHANGED <<werr, logs>>
           [] outcome = "setter_raises" ->
                /\ wf_bound' = TRUE
                /\ wf_open' = TRUE
                /\ wavExists' = TRUE
                /\ werr' = TRUE
                /\ logs' = logs \cup {"Audio writer error"}
                /\ wpc' = "w_finally"
           [] OTHER ->
                /\ werr' = TRUE
                /\ logs' = logs \cup {"Audio writer error"}
                /\ wpc' = "w_finally"
                /\ UNCHANGED <<wf_bound, wf_open, wavExists>>
    /\ UNCHANGED <<mpc, user, rev, deps, stream_open, frames_queue, unfinished,
                   stop_event, paused, nput, written, mp3Exists, msgs, cmds, stopAt,
                   conv, exported, remVars>>

\* "while not stop_event.is_set() or not frames_queue.empty():"
WriterContinues_StopOnly(stop, q) == ~stop
WriterContinues(stop, q) == ~stop \/ q # <<>>

WriterTest ==
    /\ wpc = "w_test"
    /\ wpc' = IF WriterContinues(stop_event, frames_queue) THEN "w_get" ELSE "w_finally"
    /\ UNCHANGED <<mpc, user, rev, deps, stream_open, frames_queue, unfinished,
                   stop_event, paused, nput, wf_bound, wf_open, written, werr,
                   wavExists, mp3Exists, msgs, logs, cmds, stopAt, conv,
                   exported, remVars>>

\* the loop body: frames_queue.get(timeout=0.1), wf.writeframes(data),
\* frames_queue.task_done(); queue.Empty goes round the loop again
WriterDrain ==
    /\ wpc = "w_get"
    /\ IF frames_queue = <<>>
       THEN /\ wpc' = "w_test"
            /\ UNCHANGED <<frames_queue, unfinished, written, werr, logs>>
       ELSE \E ok \in BOOLEAN :
              /\ frames_queue' = QueueRest(frames_queue)
              /\ IF ok
                 THEN /\ written' = Append(written, QueueFront(frames_queue))
                      /\ unfinished' = unfinished - 1
                      /\ wpc' = "w_test"
                      /\ UNCHANGED <<werr, logs>>
                 ELSE \* writeframes raises: no task_done for this frame
                      /\ werr' = TRUE
                      /\ logs' = logs \cup {"Audio writer error"}
                      /\ wpc' = "w_finally"
                      /\ UNCHANGED <<written, unfinished>>
    /\ UNCHANGED <<mpc, user, rev, deps, stream_open, stop_event, paused, nput,
                   wf_bound, wf_open, wavExists, mp3Exists, msgs, cmds, stopAt,
                   conv, exported, remVars>>

\* finally: if 'wf' in locals(): wf.close(); the thread ends
WriterFinally ==
    /\ wpc = "w_finally"
    /\ wf_open' = IF wf_bound THEN FALSE ELSE wf_open
    /\ wpc' = "w_done"
    /\ UNCHANGED <<mpc, user, rev, deps, stream_open, frames_queue, unfinished,
                   stop_event, paused, nput, wf_bound, written, werr, wavExists,
                   mp3Exists, msgs, logs, cmds, stopAt, conv, exported, remVars>>

\* ------------------------------------------------ reminder subsystem
Terminate == "terminate"    \* {"type": "terminate"}
Refresh == "refresh"        \* {"type": "refresh"}

WorkerIds == 1..MaxWorkers

\* what the user can type at "Reminder: ": a time (kind "time", its timestamp
\* ts), 'clear', 'back' or text strptime rejects
TimeInputs == 0..MaxTime
ReminderInputs ==
    [kind : {"time"}, ts : TimeInputs]
        \cup [kind : {"clear", "back", "bad format"}, ts : {0}]

\* "if timestamp <= time.time(): raise ValueError"
ReminderRejected_PastOnly(timestamp, t) == timestamp < t
ReminderRejected(timestamp, t) == timestamp <= t

\* WHERE user_id=? AND reminder_time IS NOT NULL AND reminder_time < ?
DueNotes(uid, t) ==
    {n \in NoteIds : NoteOwner[n] = uid /\ reminder_time[n] # NULL
                       /\ reminder_time[n] < t}

\* the orders in which cur.fetchall() can return a set of rows
Orders(S) ==
    {q \in UNION {[1..k -> S] : k \in {Cardinality(S)}} :
        \A i, j \in 1..Cardinality(S) : i # j => q[i] # q[j]}

\* a notification counter that stops counting at two
Bump(c) == IF c < 2 THEN c + 1 ELSE c

\* the seconds of the two sleeps of reminder_worker: the one that ends a
\* cycle and the one of the two except clauses
PollSleep == 10
BackoffSleep == 30

\* a reminder_worker thread: where it is, its user_id, the rows of its query
\* still to be processed, and of its current cycle the rows the query
\* returned (fetched), the rows notified and cleared (handled) and the
\* seconds of the sleep it is in (nap)
UnbornWorker == [pc |-> "unborn", uid |-> 0, reminders |-> <<>>,
                 fetched |-> {}, handled |-> {}, nap |-> 0]

\* "except sqlite3.Error" and "except Exception": log, time.sleep(30), and
\* the while loop goes on
AfterException_Fatal(wk) ==
    [wk EXCEPT !.pc = "done", !.reminders = <<>>, !.fetched = {},
               !.handled = {}, !.nap = 0]
AfterException(wk) ==
    [wk EXCEPT !.pc = "backoff", !.reminders = <<>>, !.fetched = {},
               !.handled = {}, !.nap = BackoffSleep]

\* "for note_id, title in reminders": the rows left after one pass
RemainingAfter_Break(rows) == <<>>
RemainingAfter(rows) == Tail(rows)

\* threads that are asleep in time.sleep when a Terminate is put
Asleep == {w \in WorkerIds : workers[w].pc \in {"sleep", "backoff"}}

\* login_user / create_user succeed: main_menu starts a reminder_worker thread
Login ==
    /\ mpc = "bootstrap"
    /\ \E u \in Users, w \in WorkerIds :
         /\ workers[w].pc = "unborn"
         /\ \A v \in WorkerIds : v < w => workers[v].pc # "unborn"
         /\ workers' = [workers EXCEPT ![w] =
                          [UnbornWorker EXCEPT !.pc = "top", !.uid = u]]
         /\ user' = u
    /\ mpc' = "menu"
    /\ UNCHANGED <<audioVars, now, reminder_time, REMINDER_QUEUE, fired, lastSet, owed>>

\* menu choice 7: REMINDER_QUEUE.put({"type": "terminate"}); break
Logout ==
    /\ mpc = "menu"
    /\ Len(REMINDER_QUEUE) < MaxQueue
    /\ REMINDER_QUEUE' = Append(REMINDER_QUEUE, Terminate)
    /\ owed' = owed \cup Asleep
    /\ user' = 0
    /\ mpc' = "bootstrap"
    /\ UNCHANGED <<audioVars, now, reminder_time, workers, fired, lastSet>>

\* menu choice 8: REMINDER_QUEUE.put({"type": "terminate"}); exit().  The
\* workers are daemon threads: they end with the process
ExitApp ==
    /\ mpc = "menu"
    /\ Len(REMINDER_QUEUE) < MaxQueue
    /\ REMINDER_QUEUE' = Append(REMINDER_QUEUE, Terminate)
    /\ workers' = [w \in WorkerIds |->
                     IF workers[w].pc \in {"unborn", "done"} THEN workers[w]
                     ELSE [workers[w] EXCEPT !.pc = "killed"]]
    /\ owed' = {}
    /\ mpc' = "exited"
    /\ UNCHANGED <<user, audioVars, now, reminder_time, fired, lastSet>>

\* bootstrap choice 4: exit() at the login prompt ends the process and with it
\* every worker still alive
BootstrapExit ==
    /\ mpc = "bootstrap"
    /\ workers' = [w \in WorkerIds |->
                     IF workers[w].pc \in {"unborn", "done"} THEN workers[w]
                     ELSE [workers[w] EXCEPT !.pc = "killed"]]
    /\ owed' = {}
    /\ mpc' = "exited"
    /\ UNCHANGED <<user, audioVars, now, reminder_time, REMINDER_QUEUE, fired, lastSet>>

\* manage_reminder(user_id, note_id, notes_dict) for a note of the menu's list
ManageReminder(note_id, input) ==
    /\ mpc = "menu"
    /\ NoteOwner[note_id] = user
    /\ CASE input.kind = "back" ->
              /\ lastSet' = "back"
              /\ UNCHANGED <<reminder_time, REMINDER_QUEUE, fired>>
         [] input.kind = "bad format" ->
              \* strptime raises ValueError
              /\ lastSet' = "Error: format"
              /\ UNCHANGED <<reminder_time, REMINDER_QUEUE, fired>>
         [] input.kind = "time" /\ ReminderRejected(input.ts, now) ->
              /\ lastSet' = "Error: Reminder time must be in the future"
              /\ UNCHANGED <<reminder_time, REMINDER_QUEUE, fired>>
         [] OTHER ->
              LET timestamp == IF input.kind = "clear" THEN NULL ELSE input.ts IN
              \E committed \in BOOLEAN :
                IF committed
                THEN /\ Len(REMINDER_QUEUE) < MaxQueue
                     /\ reminder_time' = [reminder_time EXCEPT ![note_id] = timestamp]
                     /\ REMINDER_QUEUE' = Append(REMINDER_QUEUE, Refresh)
                     /\ fired' = [fired EXCEPT ![note_id] = 0]
                     /\ lastSet' = IF input.kind = "clear" THEN "Reminder cleared"
                                   ELSE "Reminder set"
                ELSE /\ lastSet' = "Database error"
                     /\ UNCHANGED <<reminder_time, REMINDER_QUEUE, fired>>
    /\ UNCHANGED <<mpc, user, audioVars, now, workers, owed>>

\* the clock advances
Tick ==
    /\ now < MaxTime
    /\ now' = now + 1
    /\ UNCHANGED <<mpc, user, audioVars, reminder_time, REMINDER_QUEUE, workers,
                   fired, lastSet, owed>>

\* reminder_worker: "if not REMINDER_QUEUE.empty():"
WorkerPeek(w) ==
    /\ workers[w].pc = "top"
    /\ workers' = [workers EXCEPT ![w].pc =
                     IF REMINDER_QUEUE = <<>> THEN "query" ELSE "get"]
    /\ owed' = IF REMINDER_QUEUE = <<>> THEN owed \ {w} ELSE owed
    /\ UNCHANGED <<mpc, user, audioVars, now, reminder_time, REMINDER_QUEUE, fired,
                   lastSet>>

\* reminder_worker: item = REMINDER_QUEUE.get_nowait() and the two type tests;
\* queue.Empty (another worker took the item) reaches "except Exception"
WorkerGet(w) ==
    /\ workers[w].pc = "get"
    /\ IF REMINDER_QUEUE = <<>>
       THEN /\ workers' = [workers EXCEPT ![w] = AfterException(workers[w])]
            /\ UNCHANGED REMINDER_QUEUE
       ELSE /\ REMINDER_QUEUE' = Tail(REMINDER_QUEUE)
            /\ workers' = [workers EXCEPT ![w].pc =
                             IF Head(REMINDER_QUEUE) = Terminate THEN "done"
                             ELSE "query"]
    /\ owed' = owed \ {w}
    /\ UNCHANGED <<mpc, user, audioVars, now, reminder_time, fired, lastSet>>

\* reminder_worker: sqlite3.connect, now = time.time(), the SELECT, fetchall
WorkerQuery(w) ==
    /\ workers[w].pc = "query"
    /\ \E ok \in BOOLEAN :
         IF ok
         THEN \E rows \in Orders(DueNotes(workers[w].uid, now)) :
                workers' = [workers EXCEPT ![w].pc = "process",
                                           ![w].reminders = rows,
                                           ![w].fetched = Range(rows),
                                           ![w].handled = {}]
         ELSE workers' = [workers EXCEPT ![w] = AfterException(workers[w])]
    /\ UNCHANGED <<mpc, user, audioVars, now, reminder_time, REMINDER_QUEUE, fired,
                   lastSet, owed>>

\* reminder_worker: one pass of "for note_id, title in reminders": the print,
\* then the UPDATE and the commit, which can raise sqlite3.Error
WorkerNotifyClear(w) ==
    /\ workers[w].pc = "process"
    /\ workers[w].reminders # <<>>
    /\ LET note_id == Head(workers[w].reminders) IN
       /\ fired' = [fired EXCEPT ![note_id] = Bump(fired[note_id])]
       /\ \E ok \in BOOLEAN :
            IF ok
            THEN /\ reminder_time' = [reminder_time EXCEPT ![note_id] = NULL]
                 /\ workers' = [workers EXCEPT
                        ![w].reminders = RemainingAfter(workers[w].reminders),
                        ![w].handled = workers[w].handled \cup {note_id}]
            ELSE /\ workers' = [workers EXCEPT ![w] = AfterException(workers[w])]
                 /\ UNCHANGED reminder_time
    /\ UNCHANGED <<mpc, user, audioVars, now, REMINDER_QUEUE, lastSet, owed>>

\* reminder_worker: con.close(); time.sleep(10)
WorkerSleep(w) ==
    /\ workers[w].pc = "process"
    /\ workers[w].reminders = <<>>
    /\ workers' = [workers EXCEPT ![w].pc = "sleep", ![w].nap = PollSleep]
    /\ UNCHANGED <<mpc, user, audioVars, now, reminder_time, REMINDER_QUEUE, fired,
                   lastSet, owed>>

\* reminder_worker: time.sleep(10) or time.sleep(30) returns
WorkerWake(w) ==
    /\ workers[w].pc \in {"sleep", "backoff"}
    /\ workers' = [workers EXCEPT ![w].pc = "top", ![w].nap = 0,
                                  ![w].fetched = {}, ![w].handled = {}]
    /\ UNCHANGED <<mpc, user, audioVars, now, reminder_time, REMINDER_QUEUE, fired,
                   lastSet, owed>>

\* ------------------------------------------------ specifications
\* the process after load_config and init_db, at the login prompt
Init ==
    /\ mpc = "bootstrap"
    /\ user = 0
    /\ rev \in {"v130", "v131"}
    /\ deps \in BOOLEAN
    /\ stream_open = FALSE
    /\ frames_queue = <<>>
    /\ unfinished = 0
    /\ stop_event = FALSE
    /\ paused = FALSE
    /\ nput = 0
    /\ wpc = "w_idle"
    /\ wf_bound = FALSE
    /\ wf_open = FALSE
    /\ written = <<>>
    /\ werr = FALSE
    /\ wavExists = FALSE
    /\ mp3Exists = FALSE
    /\ msgs = {}
    /\ logs = {}
    /\ cmds = <<>>
    /\ stopAt = 0
    /\ conv = "none"
    /\ exported = FALSE
    /\ now = 0
    /\ reminder_time = [n \in NoteIds |-> NULL]
    /\ REMINDER_QUEUE = <<>>
    /\ workers = [w \in WorkerIds |-> UnbornWorker]
    /\ fired = [n \in NoteIds |-> 0]
    /\ lastSet = "none"
    /\ owed = {}

NextAudio ==
    \/ StartRecording
    \/ PollCommand
    \/ CaptureStep
    \/ Finally
    \/ JoinWriter
    \/ JoinQueueAndReport
    \/ ConvertPrompt
    \/ WriterOpen
    \/ WriterTest
    \/ WriterDrain
    \/ WriterFinally

NextRem ==
    \/ Login
    \/ Logout
    \/ ExitApp
    \/ BootstrapExit
    \/ \E n \in NoteIds, input \in ReminderInputs : ManageReminder(n, input)
    \/ Tick
    \/ \E w \in WorkerIds : WorkerPeek(w)
    \/ \E w \in WorkerIds : WorkerGet(w)
    \/ \E w \in WorkerIds : WorkerQuery(w)
    \/ \E w \in WorkerIds : WorkerNotifyClear(w)
    \/ \E w \in WorkerIds : WorkerSleep(w)
    \/ \E w \in WorkerIds : WorkerWake(w)

Next == NextAudio \/ NextRem

\* the whole program
Spec == Init /\ [][Next]_vars

\* the state a recording starts from: user 1 logged in, at the main menu, the
\* reminder worker of that login started
InitAudio ==
    /\ mpc = "menu"
    /\ user = 1
    /\ rev \in {"v130", "v131"}
    /\ deps \in BOOLEAN
    /\ stream_open = FALSE
    /\ frames_queue = <<>>
    /\ unfinished = 0
    /\ stop_event = FALSE
    /\ paused = FALSE
    /\ nput = 0
    /\ wpc = "w_idle"
    /\ wf_bound = FALSE
    /\ wf_open = FALSE
    /\ written = <<>>
    /\ werr = FALSE
    /\ wavExists = FALSE
    /\ mp3Exists = FALSE
    /\ msgs = {}
    /\ logs = {}
    /\ cmds = <<>>
    /\ stopAt = 0
    /\ conv = "none"
    /\ exported = FALSE
    /\ now = 0
    /\ reminder_time = [n \in NoteIds |-> NULL]
    /\ REMINDER_QUEUE = <<>>
    /\ workers = [w \in WorkerIds |->
                    IF w = 1 THEN [UnbornWorker EXCEPT !.pc = "top", !.uid = 1]
                    ELSE UnbornWorker]
    /\ fired = [n \in NoteIds |-> 0]
    /\ lastSet = "none"
    /\ owed = {}

\* the audio capture pipeline alone, from the main menu
SpecAudio == InitAudio /\ [][NextAudio]_vars

\* the reminder subsystem alone (ModuWorks.py; it reads neither rev nor deps)
InitRem == Init /\ rev = "v130" /\ deps

SpecRem == InitRem /\ [][NextRem]_vars

\* the first login of the process: no reminder worker has been started yet
FirstLogin == workers[1].pc = "unborn" /\ Login

NextRemSession ==
    \/ FirstLogin
    \/ Logout
    \/ ExitApp
    \/ BootstrapExit
    \/ \E n \in NoteIds, input \in ReminderInputs : ManageReminder(n, input)
    \/ Tick
    \/ \E w \in WorkerIds : WorkerPeek(w)
    \/ \E w \in WorkerIds : WorkerGet(w)
    \/ \E w \in WorkerIds : WorkerQuery(w)
    \/ \E w \in WorkerIds : WorkerNotifyClear(w)
    \/ \E w \in WorkerIds : WorkerSleep(w)
    \/ \E w \in WorkerIds : WorkerWake(w)

\* the reminder subsystem over one login session: one worker, the foreground
\* thread and the clock
SpecRemSession == InitRem /\ [][NextRemSession]_vars

\* one step of the reminder_worker thread w
WorkerStep(w) ==
    \/ WorkerPeek(w)
    \/ WorkerGet(w)
    \/ WorkerQuery(w)
    \/ WorkerNotifyClear(w)
    \/ WorkerSleep(w)
    \/ WorkerWake(w)

\* one login session in which every worker thread that can run is scheduled
\* again and every time.sleep returns
SpecRemSessionFair ==
    SpecRemSession /\ \A w \in WorkerIds : WF_vars(WorkerStep(w))

\* ------------------------------------------------ properties: recording
\* the frames put on frames_queue so far, in the order they were put
Enqueued == [i \in 1..nput |-> i]

\* the writer thread has ended without having caught an exception
WriterEndedCleanly == wpc = "w_done" /\ ~werr

\* C1: stop always flushes: when the writer has closed the file, the file
\* holds exactly the frames that were put before stop_event was set, none
\* missing, none duplicated, none extra.
C1_StopFlushesExactly ==
    WriterEndedCleanly => written = [i \in 1..stopAt |-> i]

\* C2: FIFO preservation: the k-th frame passed to writeframes is the k-th
\* frame put on frames_queue, whatever the interleaving of the capture loop
\* and the writer.
C2_FifoPreserved ==
    /\ IsPrefix(written, Enqueued)
    /\ WriterEndedCleanly /\ frames_queue = <<>> => written = Enqueued

\* a recording in which the writer fell behind the capture loop and caught up
C2_Witness ==
    /\ Len(written) >= 3
    /\ Len(frames_queue) >= 2
    /\ wpc = "w_get"

\* the step is the capture logic of a pass whose paused flag is set
PausedPass == mpc = "rec_capture" /\ paused /\ mpc' # mpc

\* C5: pause never drops frames: a pass of the capture loop whose paused flag
\* is set reads nothing from the device and puts nothing on the queue, and
\* every frame put before a pause is in the file once the writer has ended
\* without an exception.
C5_PauseNeverDrops ==
    /\ [][PausedPass => nput' = nput /\ frames_queue' = frames_queue
                          /\ unfinished' = unfinished]_vars
    /\ [](WriterEndedCleanly =>
            \A k \in 1..Len(cmds) :
              cmds[k].c = "P" => \A f \in 1..cmds[k].at : f \in Range(written))

\* a recording paused after at least two frames and stopped while paused, all
\* of whose frames are in the file
C5_Witness ==
    /\ WriterEndedCleanly
    /\ paused
    /\ Len(cmds) = 2
    /\ cmds[1] = [c |-> "P", at |-> nput]
    /\ cmds[2].c = "S"
    /\ nput >= 2
    /\ written = Enqueued

\* the commands of the scenario: 'P' after 5 chunks, 'P' again with no chunk
\* captured in between, 'S' after 3 more
Scenario5P0P3S ==
    <<[c |-> "P", at |-> 5], [c |-> "P", at |-> 5], [c |-> "S", at |-> 8]>>

\* C6: capture 5 chunks, pause, capture 0 more, resume, capture 3 chunks, stop:
\* the file holds exactly chunks 1..8 in capture order; processing the stop
\* command reads and writes no further chunk.
C6_ScenarioHasEightChunks ==
    cmds = Scenario5P0P3S =>
      /\ nput = 8
      /\ WriterEndedCleanly => written = [i \in 1..8 |-> i]

\* the step processes a 'P' command
PStep == Len(cmds') = Len(cmds) + 1 /\ cmds'[Len(cmds')].c = "P"

\* C8 (as claimed): pause is idempotent: the pause command, 'P', issued on a
\* session that is already paused leaves it paused.
C8_PauseIdempotent == [][PStep /\ paused => paused']_vars

\* C8 (amended): 'P' is a toggle: on a paused session it clears the flag, on a
\* running session it sets it, it is never an error and never stops the loop.
C8_PauseToggles ==
    [][PStep => /\ paused' = ~paused
                /\ msgs' = msgs
                /\ stop_event' = stop_event
                /\ mpc' = "rec_capture"]_vars

\* a session that was paused and resumed by two 'P' commands
C8_Witness ==
    /\ Len(cmds) = 2
    /\ cmds[1].c = "P"
    /\ cmds[2].c = "P"
    /\ ~paused
    /\ mpc = "rec_capture"

\* C9: conversion is never destructive on failure: the WAV file is deleted
\* only after the export has returned without raising; when AudioSegment is
\* missing or any step of the conversion raises, the WAV file is still there
\* and a "Conversion failed" message is spoken.
C9_ConversionNotDestructive ==
    /\ wf_bound /\ ~wavExists => exported /\ "Conversion successful" \in msgs
    /\ conv \notin {"none", "declined"} /\ ~(conv = "ok" /\ wf_bound) =>
         /\ wavExists = wf_bound
         /\ msgs \cap ConversionFailures # {}
    /\ \A r \in {"v130", "v131"}, o \in ConvertOutcomes, w \in BOOLEAN :
         /\ ConvertWavToMp3(r, FALSE, o, w).wav = w
         /\ ConvertWavToMp3(r, FALSE, o, w).msg \in ConversionFailures

\* a conversion whose export raised: the WAV file is kept, the failure spoken
C9_Witness ==
    /\ conv = "export_raises"
    /\ wavExists
    /\ ~exported
    /\ "Conversion failed" \in msgs
    /\ mpc = "menu"

\* C10: when wave.open or writeframes fails, the recording is aborted and the
\* failure is spoken to the user: no further frame is captured and the
\* recording is not reported as saved.
C10_WriterFailureAborts ==
    /\ [][werr /\ wpc = "w_done" => nput' = nput]_vars
    /\ [](werr => "Recording saved" \notin msgs)
    /\ [](werr /\ mpc = "menu" => "Recording error" \in msgs)

\* the foreground thread is inside the try block of record_audio_menu
InCaptureSession == mpc \in {"rec_loop", "rec_capture", "rec_finally"}

\* C13: the audio input device is owned by at most one capture session at a
\* time: an input stream is open only while the foreground thread is inside
\* the try block of the session that opened it; p.open runs only from the
\* menu with no stream open; and whenever control is outside that block
\* (the joins, the prompt, the menu) the stream has been closed.
C13_OneStreamAtATime ==
    /\ [](stream_open => InCaptureSession)
    /\ [][stream_open' /\ ~InCaptureSession
            => mpc = "menu" /\ ~stream_open /\ mpc' = "rec_loop"]_vars
    /\ [][InCaptureSession /\ ~InCaptureSession' => ~stream_open']_vars

\* a session that captured frames and ended through "except Exception" is
\* back at the menu with its stream closed
C13_Witness ==
    /\ mpc = "menu"
    /\ nput > 0
    /\ "Recording error" \in msgs
    /\ ~stream_open

\* C14: stop terminates: once stop_event is set, and the writer has caught no
\* exception, the session is never blocked: until control is back at the
\* menu or at the MP3 prompt some thread of the recording can take a step
\* (the capture loop ends, the writer ends, both joins return).
C14_StopTerminates ==
    (stop_event /\ ~werr /\ mpc \notin {"menu", "rec_prompt"})
      => ENABLED NextAudio

\* C15: the writer's exit condition is "stop signaled and queue empty": the
\* step by which audio_writer leaves its drain loop without an exception is
\* taken with stop_event set and frames_queue empty, never on stop alone
\* while frames are queued and never on an empty queue while stop is not set.
C15_WriterExitCondition ==
    [][wpc = "w_test" /\ wpc' = "w_finally"
         => stop_event /\ frames_queue = <<>>]_vars

\* the writer has left its loop without an exception, after stop, having
\* written every frame that was put
C15_Witness ==
    /\ wpc = "w_finally"
    /\ ~werr
    /\ stop_event
    /\ nput >= 2
    /\ written = Enqueued
    /\ frames_queue = <<>>

\* C16: stop is an ordered two-phase shutdown: the device stream is closed
\* first and only then does the writer, having drained the queue, close the
\* file; the duration is reported only after the writer thread has ended and
\* the file is closed; an MP3 is produced only after that report, from the
\* prompt, on the answer 'y'.
C16_TwoPhaseShutdown ==
    /\ [](WriterEndedCleanly => ~stream_open)
    /\ []("Recording saved" \in msgs => wpc = "w_done" /\ ~wf_open)
    /\ [](conv \notin {"none", "declined"} => "Recording saved" \in msgs)
    /\ [][conv' # conv /\ conv' # "none" => mpc = "rec_prompt"]_vars

\* C20: no frame is enqueued after the writer has closed the file: when the
\* writer thread has ended without an exception, every frame the capture
\* loop has put (the one read in the pass that handled 'S' included) has
\* been dequeued and written, and frames_queue is empty with no unfinished
\* task.
C20_NoFrameAfterWriterEnd ==
    WriterEndedCleanly =>
      /\ written = Enqueued
      /\ frames_queue = <<>>
      /\ unfinished = 0

\* ------------------------------------------------ properties: reminders
\* C3: a due reminder is surfaced exactly once per due occurrence: no note is
\* notified twice for the reminder time it was last given, over any number of
\* poll cycles of any number of workers.
C3_NotifiedAtMostOnce == \A n \in NoteIds : fired[n] <= 1

\* the step is manage_reminder for some note with a time that is not later
\* than the clock
PastSetStep ==
    \E n \in NoteIds, input \in ReminderInputs :
      /\ input.kind = "time"
      /\ input.ts <= now
      /\ ManageReminder(n, input)

\* C4: a reminder time that is not strictly greater than the current time is
\* rejected: manage_reminder speaks an error, leaves reminder_time as it was
\* and puts no Refresh; so every non-null reminder_time written was strictly
\* later than the clock when it was written.
C4_PastReminderRejected ==
    /\ [][PastSetStep =>
            /\ reminder_time' = reminder_time
            /\ REMINDER_QUEUE' = REMINDER_QUEUE
            /\ lastSet' = "Error: Reminder time must be in the future"]_vars
    /\ [][\A n \in NoteIds :
            reminder_time'[n] # reminder_time[n] /\ reminder_time'[n] # NULL
              => reminder_time'[n] > now]_vars

\* a past time was just rejected for a user one of whose notes has a reminder
C4_Witness ==
    /\ lastSet = "Error: Reminder time must be in the future"
    /\ now >= 1
    /\ \E n \in NoteIds : reminder_time[n] # NULL

\* C7: a Terminate put while a worker sleeps makes that worker exit at its
\* next signal check, before any further query, whatever else is queued.
C7_TerminateAtNextCheck ==
    [][\A w \in WorkerIds :
         /\ w \in owed
         /\ workers[w].pc \in {"top", "get"}
         /\ workers'[w].pc \notin {"top", "get"}
         => workers'[w].pc \in {"done", "killed"}]_vars

\* C11: within one poll cycle every reminder that was due when the cycle's
\* query ran is notified and cleared to null before the worker enters the
\* sleep that ends the cycle: the query returns every due note of the user,
\* and a worker in time.sleep(10) has notified and cleared every row of it.
C11_AllDueHandledBeforeSleep ==
    /\ [][\A w \in WorkerIds :
            workers[w].pc = "query" /\ workers'[w].pc = "process"
              => workers'[w].fetched = DueNotes(workers[w].uid, now)]_vars
    /\ [](\A w \in WorkerIds :
            workers[w].pc = "sleep" /\ workers[w].nap = PollSleep
              => workers[w].handled = workers[w].fetched)

\* a worker sleeps at the end of a cycle whose query returned both notes:
\* both were notified and both are null
C11_Witness ==
    \E w \in WorkerIds :
      /\ workers[w].pc = "sleep"
      /\ workers[w].fetched = NoteIds
      /\ workers[w].handled = NoteIds
      /\ \A n \in NoteIds : reminder_time[n] = NULL /\ fired[n] >= 1

\* C12: a failure of a store access is never fatal to reminder_worker: after
\* an exception the worker is in a sleep longer than the one that ends a
\* normal cycle and then starts a new cycle at the signal check; the only
\* step by which a worker leaves its loop is the get_nowait that takes a
\* Terminate; and the worker of the session (worker 1, the thread the one
\* login starts), backing off while a Terminate is queued, comes to consume
\* it and ends.
C12_FailureNeverFatal ==
    /\ [](\A w \in WorkerIds :
            workers[w].pc = "backoff" => workers[w].nap > PollSleep)
    /\ [][\A w \in WorkerIds :
            workers[w].pc = "backoff"
              => workers'[w].pc \in {"backoff", "top", "killed"}]_vars
    /\ [][\A w \in WorkerIds :
            workers[w].pc # "done" /\ workers'[w].pc = "done"
              => /\ workers[w].pc = "get"
                 /\ REMINDER_QUEUE # <<>>
                 /\ Head(REMINDER_QUEUE) = Terminate
                 /\ REMINDER_QUEUE' = Tail(REMINDER_QUEUE)]_vars
    /\ (workers[1].pc = "backoff" /\ Terminate \in Range(REMINDER_QUEUE))
         ~> (workers[1].pc \in {"done", "killed"})

\* a worker is in the 30 s sleep of an except clause, and a Terminate was put
\* since it fell asleep
C12_Witness ==
    \E w \in WorkerIds :
      /\ workers[w].pc = "backoff"
      /\ workers[w].nap = BackoffSleep
      /\ w \in owed
      /\ Terminate \in Range(REMINDER_QUEUE)

\* the step is a pass of a worker's for loop over note n: n is notified
NotifyStep(n) ==
    \E w \in WorkerIds :
      /\ workers[w].pc = "process"
      /\ workers[w].reminders # <<>>
      /\ Head(workers[w].reminders) = n
      /\ WorkerNotifyClear(w)

\* C17: for each due reminder the clear is attempted with its notification,
\* before the next due reminder is notified: the pass that notifies a note
\* either leaves it null or ends the cycle in the except clause; and a
\* reminder whose clear fails is not notified again and again without end:
\* from some point on no pass notifies it.
C17_ClearFollowsNotify ==
    /\ [][\A n \in NoteIds :
            NotifyStep(n) =>
              \/ reminder_time'[n] = NULL
              \/ \E w \in WorkerIds :
                   workers[w].pc = "process" /\ workers'[w].pc = "backoff"]_vars
    /\ \A n \in NoteIds : <>[][~NotifyStep(n)]_vars

\* the reminder_worker threads that are alive
Running == {w \in WorkerIds : workers[w].pc \notin {"unborn", "done", "killed"}}

\* C18: across login, logout, login the Terminate put at a logout is consumed
\* by the worker of the session that logged out: when a worker consumes a
\* Terminate, the worker of every earlier login has already ended (workers
\* are numbered in login order and the queue is first-in first-out, so a
\* Terminate taken while an earlier worker is alive was put for that
\* worker); and once no signal is left in REMINDER_QUEUE at most one worker
\* is alive.
C18_TerminateReachesItsWorker ==
    /\ [][\A w \in WorkerIds :
            workers[w].pc = "get" /\ workers'[w].pc = "done"
              => \A v \in WorkerIds :
                   v < w => workers[v].pc \in {"done", "killed"}]_vars
    /\ [](REMINDER_QUEUE = <<>> => Cardinality(Running) <= 1)

\* C19: a reminder the foreground thread has set to a future time is never
\* cleared by the scheduler before that time: a pass of a worker's for loop
\* over a note whose reminder_time is later than the clock (committed by
\* manage_reminder after the worker's query) leaves that time in place.
C19_FutureReminderSurvives ==
    [][\A n \in NoteIds :
         (NotifyStep(n) /\ reminder_time[n] # NULL /\ reminder_time[n] > now)
           => reminder_time'[n] = reminder_time[n]]_vars

====
